---- MODULE Spec2Model ----
(***************************************************************************)
(* A model of the droneclash AirLib core:                                  *)
(*   - RosFlightDroneController (controllers/rosflight/...Controller.hpp)  *)
(*   - Environment              (physics/Environment.hpp)                  *)
(*   - VectorMathT              (common/VectorMath.hpp)                    *)
(* Reals are modelled exactly: RC axes are multiples of 1/AxisScale, unit  *)
(* quaternions and vectors are integer numerators over a denominator.      *)
(***************************************************************************)
EXTENDS Integers, Sequences, FiniteSets, TLC

VARIABLES
    input_channels,   \* board_: the 12 firmware input channels
    rc_call,          \* the last setRCData call: its argument
    motor_out,        \* board_: the motor outputs of the firmware, by QuadX index
    rotor_count,      \* vehicle_params_->getParams().rotor_count
    board_events,     \* what board_ and firmware_ were asked to do, in order
    ctl_call,         \* the last controller query/command and how it ended
    initialized,      \* Environment: initialize() has run on this instance
    initial_,         \* Environment::initial_
    current_,         \* Environment::current_
    home_geo_point_,  \* Environment::home_geo_point_
    env_call,         \* the last Environment call and the state it found
    math_pc,          \* VectorMath caller: "start", then the call made last
    angle_in,         \* argument of normalizeAngleDegrees
    angle_out,        \* its result, once math_pc = "normalized"
    rot_q,            \* quaternion argument of rotateVector/rotateVectorReverse
    rot_v,            \* vector argument of rotateVector
    rot_unit,         \* the assume_unit_quat flag passed to both calls
    rot_fwd,          \* rotateVector(rot_v, rot_q, rot_unit), once "rotated"
    rot_back,         \* rotateVectorReverse(rot_fwd, rot_q, rot_unit), once "restored"
    pose_lhs,         \* left operand of the Pose operator-
    pose_rhs,         \* right operand of the Pose operator-
    pose_diff         \* pose_lhs - pose_rhs, once math_pc = "subtracted"

rcVars   == <<input_channels, rc_call>>
ctlVars  == <<motor_out, rotor_count, board_events, ctl_call>>
envVars  == <<initialized, initial_, current_, home_geo_point_, env_call>>
angVars  == <<angle_in, angle_out>>
rotVars  == <<rot_q, rot_v, rot_unit, rot_fwd, rot_back>>
poseVars == <<pose_lhs, pose_rhs, pose_diff>>
vars     == <<rcVars, ctlVars, envVars, math_pc, angVars, rotVars, poseVars>>

(***************************************************************************)
(* Bounds of the model.                                                    *)
(***************************************************************************)
\* RC axes take the values k/AxisScale.
AxisScale == 2
\* Switch positions offered by the RC source: 0..MaxSwitchPos.
MaxSwitchPos == 2
\* Rotor indices asked of getVertexControlSignal: 0..MaxRotorIndex.
MaxRotorIndex == 6
\* Motor outputs of the firmware take the values 0..MaxMotorOut.
MaxMotorOut == 1
\* Local NED coordinates and geodetic altitudes range over -MaxCoord..MaxCoord.
MaxCoord == 1
\* normalizeAngleDegrees is applied to the integer degrees -MaxAngle..MaxAngle.
MaxAngle == 725
\* Vector components of the rotation round trip: -MaxVec..MaxVec.
MaxVec == 1
\* update() is called at most MaxTicks times.
MaxTicks == 3
\* The controller's reset() is called at most MaxResets times.
MaxResets == 1

(***************************************************************************)
(* Idle values of the components a specification leaves alone.            *)
(***************************************************************************)
NoCall == [op |-> "none"]

Trunc(num, den) ==
    \* float -> integer conversion of num/den (den > 0): toward zero
    IF num >= 0 THEN num \div den ELSE -((-num) \div den)

(***************************************************************************)
(* RosFlightDroneController: remote-control input (setRCData).            *)
(***************************************************************************)
\* The firmware input channels setRCData writes (setInputChannel 0..11).
Channels == 0 .. 11

\* The default of switchToPwm's maxSwitchVal parameter.
DefaultMaxSwitchVal == 1

\* Axis values offered by the RC source, in units of 1/AxisScale: the nominal
\* range [-1,1] and half as much again on either side.
AxisVals == -(AxisScale + AxisScale \div 2) .. (AxisScale + AxisScale \div 2)
SwitchVals == 0 .. MaxSwitchPos

\* An RCData with every axis centred and every switch at 0.
ZeroRC ==
    [is_connected |-> TRUE, roll |-> 0, pitch |-> 0, yaw |-> 0, throttle |-> 0,
     switch1 |-> 0, switch2 |-> 0, switch3 |-> 0, switch4 |-> 0,
     switch5 |-> 0, switch6 |-> 0, switch7 |-> 0, switch8 |-> 0]

AxisFields == {"roll", "pitch", "yaw", "throttle"}
SwitchFields ==
    {"switch1", "switch2", "switch3", "switch4",
     "switch5", "switch6", "switch7", "switch8"}

\* The RCData values the RC source produces in this model: one axis moved,
\* one switch moved, or every axis and every switch moved together; each
\* with the link up or down.
ConnectedRC ==
    {[ZeroRC EXCEPT ![f] = a] : f \in AxisFields, a \in AxisVals}
    \cup {[ZeroRC EXCEPT ![f] = p] : f \in SwitchFields, p \in SwitchVals}
    \cup {[is_connected |-> TRUE, roll |-> a, pitch |-> a, yaw |-> a,
           throttle |-> a,
           switch1 |-> p, switch2 |-> p, switch3 |-> p, switch4 |-> p,
           switch5 |-> p, switch6 |-> p, switch7 |-> p, switch8 |-> p]
          : a \in AxisVals, p \in SwitchVals}
RCInputs ==
    ConnectedRC \cup {[r EXCEPT !.is_connected = FALSE] : r \in ConnectedRC}

\* static_cast<uint16_t>(angle * 500.0f + 1500.0f), angle = a/AxisScale
angleToPwmDoubleGain(a) == Trunc(a * 1000 + 1500 * AxisScale, AxisScale)
angleToPwm(a) == Trunc(a * 500 + 1500 * AxisScale, AxisScale)

\* static_cast<uint16_t>((thrust < 0 ? 0 : thrust) * 1000.0f + 1000.0f)
thrustToPwm(t) ==
    Trunc((IF t < 0 THEN 0 ELSE t) * 1000 + 1000 * AxisScale, AxisScale)

\* static_cast<uint16_t>(1000.0f * switchVal / maxSwitchVal + 1000.0f)
switchToPwm(switchVal, maxSwitchVal) ==
    Trunc(1000 * switchVal + 1000 * maxSwitchVal, maxSwitchVal)

\* The twelve setInputChannel calls of a connected setRCData.
ChannelWrites(rcData) ==
    [c \in Channels |->
        CASE c = 0  -> angleToPwm(rcData.roll)
          [] c = 1  -> angleToPwm(rcData.yaw)
          [] c = 2  -> thrustToPwm(rcData.throttle)
          [] c = 3  -> angleToPwm(-rcData.pitch)
          [] c = 4  -> switchToPwm(rcData.switch1, DefaultMaxSwitchVal)
          [] c = 5  -> switchToPwm(rcData.switch2, DefaultMaxSwitchVal)
          [] c = 6  -> switchToPwm(rcData.switch3, DefaultMaxSwitchVal)
          [] c = 7  -> switchToPwm(rcData.switch4, DefaultMaxSwitchVal)
          [] c = 8  -> switchToPwm(rcData.switch5, DefaultMaxSwitchVal)
          [] c = 9  -> switchToPwm(rcData.switch6, DefaultMaxSwitchVal)
          [] c = 10 -> switchToPwm(rcData.switch7, DefaultMaxSwitchVal)
          [] c = 11 -> switchToPwm(rcData.switch8, DefaultMaxSwitchVal)]

\* The uint16_t casts are defined: every value written lies in 0..65535.
CastDefined(rcData) ==
    rcData.is_connected =>
        \A c \in Channels : ChannelWrites(rcData)[c] \in 0 .. 65535

\* The channels after setRCData(rcData).
setRCDataAlwaysWrites(rcData) == ChannelWrites(rcData)
setRCData(rcData) ==
    IF rcData.is_connected THEN ChannelWrites(rcData) ELSE input_channels

\* The value every input channel of the board holds before any RC input.
BoardInitVals == {0, 1500}

RcInit ==
    /\ \E v \in BoardInitVals : input_channels = [c \in Channels |-> v]
    /\ rc_call = NoCall
RcIdle ==
    /\ input_channels = [c \in Channels |-> 0]
    /\ rc_call = NoCall

SetRCData ==
    /\ \E rcData \in RCInputs :
        /\ CastDefined(rcData)
        /\ input_channels' = setRCData(rcData)
        /\ rc_call' = [op |-> "setRCData", rcData |-> rcData]
    /\ UNCHANGED <<ctlVars, envVars, math_pc, angVars, rotVars, poseVars>>

(***************************************************************************)
(* RosFlightDroneController: rotor signals and mode switches.             *)
(***************************************************************************)
\* The motor outputs the board exposes (QuadX indices).
Motors == 0 .. 3
MotorVals == 0 .. MaxMotorOut
\* Rotor counts of the vehicles the controller is built for.
RotorCounts == {4, 6}
RotorIndices == 0 .. MaxRotorIndex

\* getVertexCount()
getVertexCount == rotor_count

\* The switch of getVertexControlSignal: counter-clockwise index to QuadX
\* index; -1 stands for the default branch.
IndexQuadXRepeatsMotor(rotor_index) ==
    CASE rotor_index = 0 -> 1
      [] rotor_index = 1 -> 2
      [] rotor_index = 2 -> 3
      [] rotor_index = 3 -> 1
      [] OTHER -> -1
IndexQuadX(rotor_index) ==
    CASE rotor_index = 0 -> 1
      [] rotor_index = 1 -> 2
      [] rotor_index = 2 -> 3
      [] rotor_index = 3 -> 0
      [] OTHER -> -1

\* getVertexControlSignal(rotor_index): how the call ends, the motor output
\* it reads (none, when it throws) and the value it returns.
getVertexControlSignalWraps(rotor_index) ==
    [outcome |-> "returned", motor_read |-> {(rotor_index + 1) % 4},
     value |-> motor_out[(rotor_index + 1) % 4]]
getVertexControlSignal(rotor_index) ==
    IF IndexQuadX(rotor_index) = -1
    THEN [outcome |-> "std::runtime_error", motor_read |-> {}]
    ELSE [outcome |-> "returned", motor_read |-> {IndexQuadX(rotor_index)},
          value |-> motor_out[IndexQuadX(rotor_index)]]

\* isOffboardMode(), isSimulationMode()
isOffboardMode == FALSE
isSimulationMode == TRUE

\* setOffboardMode(is_set): an empty body.
setOffboardMode(is_set) == [outcome |-> "returned"]

\* setSimulationMode(is_set)
setSimulationMode(is_set) ==
    IF ~is_set
    THEN [outcome |-> "VehicleCommandNotImplementedException"]
    ELSE [outcome |-> "returned"]

CtlInit ==
    /\ motor_out \in [Motors -> MotorVals]
    /\ rotor_count \in RotorCounts
    /\ board_events = <<>>
    /\ ctl_call = NoCall
CtlIdle ==
    /\ motor_out = [m \in Motors |-> 0]
    /\ rotor_count = 4
    /\ board_events = <<>>
    /\ ctl_call = NoCall

GetVertexCount ==
    /\ ctl_call' = [op |-> "getVertexCount", outcome |-> "returned",
                    value |-> getVertexCount]
    /\ UNCHANGED <<motor_out, rotor_count, board_events, rcVars, envVars, math_pc, angVars, rotVars, poseVars>>

GetVertexControlSignal ==
    /\ \E rotor_index \in RotorIndices :
        ctl_call' = [op |-> "getVertexControlSignal", arg |-> rotor_index]
                    @@ getVertexControlSignal(rotor_index)
    /\ UNCHANGED <<motor_out, rotor_count, board_events, rcVars, envVars, math_pc, angVars, rotVars, poseVars>>

IsOffboardMode ==
    /\ ctl_call' = [op |-> "isOffboardMode", outcome |-> "returned",
                    value |-> isOffboardMode]
    /\ UNCHANGED <<motor_out, rotor_count, board_events, rcVars, envVars, math_pc, angVars, rotVars, poseVars>>

IsSimulationMode ==
    /\ ctl_call' = [op |-> "isSimulationMode", outcome |-> "returned",
                    value |-> isSimulationMode]
    /\ UNCHANGED <<motor_out, rotor_count, board_events, rcVars, envVars, math_pc, angVars, rotVars, poseVars>>

SetOffboardMode ==
    /\ \E is_set \in BOOLEAN :
        ctl_call' = [op |-> "setOffboardMode", arg |-> is_set]
                    @@ setOffboardMode(is_set)
    /\ UNCHANGED <<motor_out, rotor_count, board_events, rcVars, envVars, math_pc, angVars, rotVars, poseVars>>

SetSimulationMode ==
    /\ \E is_set \in BOOLEAN :
        ctl_call' = [op |-> "setSimulationMode", arg |-> is_set]
                    @@ setSimulationMode(is_set)
    /\ UNCHANGED <<motor_out, rotor_count, board_events, rcVars, envVars, math_pc, angVars, rotVars, poseVars>>

\* update(): board_->notifySensorUpdated(Imu), then firmware_->loop(); what
\* the board and the firmware have been asked after it.
updateLoopFirst == board_events \o <<"loop", "notifySensorUpdated(Imu)">>
update == board_events \o <<"notifySensorUpdated(Imu)", "loop">>

\* How often an event occurs in what the board and firmware were asked.
Asked(event) ==
    Cardinality({k \in 1 .. Len(board_events) : board_events[k] = event})

\* update().  The firmware's loop() is opaque: it may leave any motor outputs.
ControllerUpdate ==
    /\ Asked("loop") < MaxTicks
    /\ board_events' = update
    /\ motor_out' \in [Motors -> MotorVals]
    /\ ctl_call' = [op |-> "update", outcome |-> "returned"]
    /\ UNCHANGED <<rotor_count, rcVars, envVars, math_pc, angVars, rotVars, poseVars>>

\* reset() of the controller: board_->system_reset(false); what the board and
\* the firmware have been asked after it.
system_reset == Append(board_events, "system_reset(false)")

\* reset() of the controller.  The board's system_reset is opaque: it may
\* leave any motor outputs.
ControllerReset ==
    /\ Asked("system_reset(false)") < MaxResets
    /\ board_events' = system_reset
    /\ motor_out' \in [Motors -> MotorVals]
    /\ ctl_call' = [op |-> "reset", outcome |-> "returned"]
    /\ UNCHANGED <<rotor_count, rcVars, envVars, math_pc, angVars, rotVars, poseVars>>

(***************************************************************************)
(* Environment.  Lengths are in kilometres and whole numbers: a position  *)
(* is <<x, y, z>> in local NED, a geo-point has latitude, longitude and   *)
(* altitude.                                                               *)
(***************************************************************************)
Coords == -MaxCoord .. MaxCoord
\* Positions the host pushes: north and down vary, east is 0.
Positions == {<<x, 0, z>> : x \in 0 .. MaxCoord, z \in Coords}
\* Geo-points an initial state is given.
GeoPoints ==
    {[latitude |-> 47, longitude |-> -122, altitude |-> a] : a \in 0 .. MaxCoord}

\* A field no constructor has written.
Indeterminate == "indeterminate"

\* State(): no field is set.
DefaultState ==
    [geo_point |-> Indeterminate, min_z_over_ground |-> Indeterminate,
     position |-> Indeterminate, gravity |-> Indeterminate,
     air_pressure |-> Indeterminate, temperature |-> Indeterminate,
     air_density |-> Indeterminate]

\* State(position_val, geo_point_val, min_z_over_ground_val): the computed
\* fields are not set.
State(position_val, geo_point_val, min_z_over_ground_val) ==
    [DefaultState EXCEPT !.geo_point = geo_point_val,
                         !.min_z_over_ground = min_z_over_ground_val,
                         !.position = position_val]

\* The states initialize() is called with.
InitialStates == {State(p, g, 0) : p \in Positions, g \in GeoPoints}

\* EarthUtils::HomeGeoPoint(geo_point)
HomeGeoPoint(geo_point) == [home_point |-> geo_point]

\* EarthUtils::nedToGeodetic(position, home): north adds to the latitude,
\* east to the longitude, down subtracts from the altitude.
nedToGeodetic(position, home) ==
    [latitude |-> home.home_point.latitude + position[1],
     longitude |-> home.home_point.longitude + position[2],
     altitude |-> home.home_point.altitude - position[3]]

\* EarthUtils: the standard atmosphere and gravity, as functions of altitude
\* (temperature in K, pressure in Pa, density in g/m^3, gravity in mm/s^2).
getGeopotential(altitude_km) == altitude_km
getStandardTemperature(geopot) == 288 - 6 * geopot
getStandardPressure(geopot, temperature) == 101325 - 11000 * geopot
getAirDensity(air_pressure, temperature) ==
    (air_pressure * 1000) \div (287 * temperature)
getGravity(altitude) == 9807 - 3 * altitude

\* Environment::updateState(state, home_geo_point)
updateStateKeepGeoPoint(state, home) ==
    LET geo_pot == getGeopotential(state.geo_point.altitude)
        temperature == getStandardTemperature(geo_pot)
        air_pressure == getStandardPressure(geo_pot, temperature)
    IN  [state EXCEPT !.temperature = temperature,
                      !.air_pressure = air_pressure,
                      !.air_density = getAirDensity(air_pressure, temperature),
                      !.gravity = <<0, 0, getGravity(state.geo_point.altitude)>>]
updateState(state, home) ==
    LET geo_point == nedToGeodetic(state.position, home)
        geo_pot == getGeopotential(geo_point.altitude)
        temperature == getStandardTemperature(geo_pot)
        air_pressure == getStandardPressure(geo_pot, temperature)
    IN  [state EXCEPT !.geo_point = geo_point,
                      !.temperature = temperature,
                      !.air_pressure = air_pressure,
                      !.air_density = getAirDensity(air_pressure, temperature),
                      !.gravity = <<0, 0, getGravity(geo_point.altitude)>>]

\* Environment::reset(): the new current_.
resetKeepsPosition == [initial_ EXCEPT !.position = current_.position]
reset == initial_

\* Environment(): nothing is initialized.
EnvInit ==
    /\ initialized = FALSE
    /\ initial_ = DefaultState
    /\ current_ = DefaultState
    /\ home_geo_point_ = HomeGeoPoint(Indeterminate)
    /\ env_call = NoCall
EnvIdle == EnvInit

\* initialize(initial); it may be called on any instance, any number of times.
Initialize ==
    /\ \E initial \in InitialStates :
        LET home == HomeGeoPoint(initial.geo_point) IN
        /\ home_geo_point_' = home
        /\ initial_' = updateState(initial, home)
        /\ env_call' = [op |-> "initialize", initial |-> initial]
    /\ current_' = initial_'
    /\ initialized' = TRUE
    /\ UNCHANGED <<rcVars, ctlVars, math_pc, angVars, rotVars, poseVars>>

\* Environment::setPosition(position): the new current_.
setPositionAndUpdate(position) ==
    updateState([current_ EXCEPT !.position = position], home_geo_point_)
setPosition(position) == [current_ EXCEPT !.position = position]

\* setPosition(position).  Before initialize() the fields of the instance are
\* indeterminate; the host calls the operations below on an initialized one.
SetPosition ==
    /\ initialized
    /\ \E position \in Positions :
        /\ current_' = setPosition(position)
        /\ env_call' = [op |-> "setPosition", position |-> position]
    /\ UNCHANGED <<initialized, initial_, home_geo_point_>>
    /\ UNCHANGED <<rcVars, ctlVars, math_pc, angVars, rotVars, poseVars>>

\* reset()
Reset ==
    /\ initialized
    /\ current_' = reset
    /\ env_call' = [op |-> "reset", found |-> current_]
    /\ UNCHANGED <<initialized, initial_, home_geo_point_>>
    /\ UNCHANGED <<rcVars, ctlVars, math_pc, angVars, rotVars, poseVars>>

\* update()
Update ==
    /\ initialized
    /\ current_' = updateState(current_, home_geo_point_)
    /\ env_call' = [op |-> "update"]
    /\ UNCHANGED <<initialized, initial_, home_geo_point_>>
    /\ UNCHANGED <<rcVars, ctlVars, math_pc, angVars, rotVars, poseVars>>

(***************************************************************************)
(* VectorMathT::normalizeAngleDegrees, on whole degrees.                  *)
(***************************************************************************)
Angles == -MaxAngle .. MaxAngle

\* std::fmod(x, y), y > 0: the remainder has the sign of x.
fmod(x, y) == IF x >= 0 THEN x % y ELSE -((-x) % y)

normalizeAngleDegrees(angle) ==
    LET a == fmod(angle, 360) IN
    IF a > 180 THEN a - 360
    ELSE IF a < -180 THEN a + 360
    ELSE a

AngInit ==
    /\ angle_in \in Angles
    /\ angle_out = 0
AngIdle ==
    /\ angle_in = 0
    /\ angle_out = 0

NormalizeAngleDegrees ==
    /\ math_pc = "start"
    /\ angle_out' = normalizeAngleDegrees(angle_in)
    /\ math_pc' = "normalized"
    /\ UNCHANGED <<angle_in, rotVars, poseVars, rcVars, ctlVars, envVars>>

(***************************************************************************)
(* VectorMathT::rotateVector / rotateVectorReverse.  A quaternion is      *)
(* [n |-> <<w, x, y, z>>, d |-> den] and a vector [n |-> <<x, y, z>>,     *)
(* d |-> den], standing for n/d with d > 0; vectors are kept in lowest    *)
(* terms.  All inputs are binary fractions, on which float arithmetic is  *)
(* exact.                                                                  *)
(***************************************************************************)
Abs(i) == IF i < 0 THEN -i ELSE i

RECURSIVE Gcd(_, _)
Gcd(a, b) == IF b = 0 THEN a ELSE Gcd(b, a % b)

\* n/d in lowest terms.
Reduce(v) ==
    LET g == Gcd(Gcd(Gcd(v.d, Abs(v.n[1])), Abs(v.n[2])), Abs(v.n[3]))
    IN  [n |-> <<v.n[1] \div g, v.n[2] \div g, v.n[3] \div g>>, d |-> v.d \div g]

Cross(a, b) ==
    <<a[2] * b[3] - a[3] * b[2],
      a[3] * b[1] - a[1] * b[3],
      a[1] * b[2] - a[2] * b[1]>>

\* q.squaredNorm(), as numerator over q.d * q.d
SquaredNormNum(q) ==
    q.n[1] * q.n[1] + q.n[2] * q.n[2] + q.n[3] * q.n[3] + q.n[4] * q.n[4]

\* q.conjugate()
conjugate(q) == [n |-> <<q.n[1], -q.n[2], -q.n[3], -q.n[4]>>, d |-> q.d]

\* q.inverse(): conjugate / squaredNorm, and the zero quaternion for q = 0
inverse(q) ==
    IF SquaredNormNum(q) > 0
    THEN [n |-> <<q.n[1] * q.d, -q.n[2] * q.d, -q.n[3] * q.d, -q.n[4] * q.d>>,
          d |-> SquaredNormNum(q)]
    ELSE [n |-> <<0, 0, 0, 0>>, d |-> 1]

\* q._transformVector(v): uv = 2 * q.vec x v;  v + q.w * uv + q.vec x uv
transformVector(q, v) ==
    LET qv == <<q.n[2], q.n[3], q.n[4]>>
        c1 == Cross(qv, v.n)
        c2 == Cross(qv, c1)
        dd == q.d * q.d
    IN  Reduce([n |-> <<dd * v.n[1] + 2 * q.n[1] * c1[1] + 2 * c2[1],
                        dd * v.n[2] + 2 * q.n[1] * c1[2] + 2 * c2[2],
                        dd * v.n[3] + 2 * q.n[1] * c1[3] + 2 * c2[3]>>,
                d |-> dd * v.d])

rotateVector(v, q, assume_unit_quat) == transformVector(q, v)

rotateVectorReverseNoConjugate(v, q, assume_unit_quat) ==
    IF ~assume_unit_quat
    THEN transformVector(inverse(q), v)
    ELSE transformVector(q, v)
rotateVectorReverse(v, q, assume_unit_quat) ==
    IF ~assume_unit_quat
    THEN transformVector(inverse(q), v)
    ELSE transformVector(conjugate(q), v)

\* Quaternions with components in {-1,0,1}/d, d in {1,2}, whose squared norm
\* is a power of two: the 24 unit ones and 72 that are not unit.
QuatComps == {-1, 0, 1}
Quats ==
    {q \in [n : QuatComps \X QuatComps \X QuatComps \X QuatComps, d : {1, 2}] :
        SquaredNormNum(q) \in {1, 2, 4}}
IsUnit(q) == SquaredNormNum(q) = q.d * q.d

VecComps == -MaxVec .. MaxVec
Vecs == {[n |-> <<x, y, z>>, d |-> 1] : x \in VecComps, y \in VecComps, z \in VecComps}
ZeroVec == [n |-> <<0, 0, 0>>, d |-> 1]

RotInit ==
    /\ rot_q \in Quats
    /\ rot_v \in Vecs
    /\ rot_unit \in BOOLEAN
    /\ rot_fwd = ZeroVec
    /\ rot_back = ZeroVec
RotIdle ==
    /\ rot_q = [n |-> <<1, 0, 0, 0>>, d |-> 1]
    /\ rot_v = ZeroVec
    /\ rot_unit = TRUE
    /\ rot_fwd = ZeroVec
    /\ rot_back = ZeroVec

RotateVector ==
    /\ math_pc = "start"
    /\ rot_fwd' = rotateVector(rot_v, rot_q, rot_unit)
    /\ math_pc' = "rotated"
    /\ UNCHANGED <<rot_q, rot_v, rot_unit, rot_back, angVars, poseVars, rcVars, ctlVars, envVars>>

RotateVectorReverse ==
    /\ math_pc = "rotated"
    /\ rot_back' = rotateVectorReverse(rot_fwd, rot_q, rot_unit)
    /\ math_pc' = "restored"
    /\ UNCHANGED <<rot_q, rot_v, rot_unit, rot_fwd, angVars, poseVars, rcVars, ctlVars, envVars>>

(***************************************************************************)
(* Pose operator-: VectorMathT::subtract, coordPositionSubtract and       *)
(* coordOrientationSubtract.  A pose is [position |-> vector,              *)
(* orientation |-> quaternion].                                            *)
(***************************************************************************)
IdentityQuat == [n |-> <<1, 0, 0, 0>>, d |-> 1]
ZeroPose == [position |-> ZeroVec, orientation |-> IdentityQuat]

\* A quaternion in lowest terms.
ReduceQuat(q) ==
    LET g == Gcd(Gcd(Gcd(Gcd(q.d, Abs(q.n[1])), Abs(q.n[2])), Abs(q.n[3])),
                 Abs(q.n[4]))
    IN  [n |-> <<q.n[1] \div g, q.n[2] \div g, q.n[3] \div g, q.n[4] \div g>>,
         d |-> q.d \div g]

\* Eigen's quaternion product a * b
QuatMul(a, b) ==
    ReduceQuat(
        [n |-> <<a.n[1] * b.n[1] - a.n[2] * b.n[2] - a.n[3] * b.n[3] - a.n[4] * b.n[4],
                 a.n[1] * b.n[2] + a.n[2] * b.n[1] + a.n[3] * b.n[4] - a.n[4] * b.n[3],
                 a.n[1] * b.n[3] + a.n[3] * b.n[1] + a.n[4] * b.n[2] - a.n[2] * b.n[4],
                 a.n[1] * b.n[4] + a.n[4] * b.n[1] + a.n[2] * b.n[3] - a.n[3] * b.n[2]>>,
         d |-> a.d * b.d])

\* The whole square root; the poses of this model keep every norm rational.
Isqrt(x) == CHOOSE r \in 0 .. x : r * r = x

\* q.normalize(): q / q.norm().  The zero quaternion gives 0/0 in every
\* component, written here with denominator 0.
normalize(q) ==
    IF SquaredNormNum(q) = 0
    THEN [n |-> <<0, 0, 0, 0>>, d |-> 0]
    ELSE ReduceQuat([n |-> q.n, d |-> Isqrt(SquaredNormNum(q))])

\* VectorMathT::coordPositionSubtract(lhs, rhs)
coordPositionSubtract(lhs, rhs) ==
    LET tmp == [n |-> <<0,
                        lhs.position.n[1] * rhs.position.d
                            - rhs.position.n[1] * lhs.position.d,
                        lhs.position.n[2] * rhs.position.d
                            - rhs.position.n[2] * lhs.position.d,
                        lhs.position.n[3] * rhs.position.d
                            - rhs.position.n[3] * lhs.position.d>>,
                d |-> lhs.position.d * rhs.position.d]
        res == QuatMul(inverse(rhs.orientation), QuatMul(tmp, rhs.orientation))
    IN  Reduce([n |-> <<res.n[2], res.n[3], res.n[4]>>, d |-> res.d])

\* VectorMathT::coordOrientationSubtract(lhs, rhs), on orientations
coordOrientationSubtractNoInverse(lhs, rhs) == normalize(QuatMul(rhs, lhs))
coordOrientationSubtract(lhs, rhs) == normalize(QuatMul(inverse(rhs), lhs))

\* VectorMathT::subtract(lhs, rhs), which is the Pose operator-
subtract(lhs, rhs) ==
    [position |-> coordPositionSubtract(lhs, rhs),
     orientation |-> coordOrientationSubtract(lhs.orientation, rhs.orientation)]

\* Orientations whose norm is 1/2, 1 or 2, and positions in the north-down
\* plane.
PoseQuats == {q \in Quats : SquaredNormNum(q) \in {1, 4}}
PosePositions ==
    {[n |-> <<x, 0, z>>, d |-> 1] : x \in 0 .. MaxVec, z \in 0 .. MaxVec}
Poses == [position : PosePositions, orientation : PoseQuats]

PoseInit ==
    /\ pose_lhs \in Poses
    /\ pose_rhs \in Poses
    /\ pose_diff = ZeroPose
PoseIdle ==
    /\ pose_lhs = ZeroPose
    /\ pose_rhs = ZeroPose
    /\ pose_diff = ZeroPose

\* lhs - rhs
PoseSubtract ==
    /\ math_pc = "start"
    /\ pose_diff' = subtract(pose_lhs, pose_rhs)
    /\ math_pc' = "subtracted"
    /\ UNCHANGED <<pose_lhs, pose_rhs, angVars, rotVars, rcVars, ctlVars, envVars>>

(***************************************************************************)
(* Specifications, one per component; the other components stay idle.     *)
(***************************************************************************)
MathIdle == math_pc = "start"

\* setRCData
SpecRCInit == RcInit /\ CtlIdle /\ EnvIdle /\ MathIdle /\ AngIdle /\ RotIdle /\ PoseIdle
SpecRCNext == SetRCData
SpecRC == SpecRCInit /\ [][SpecRCNext]_vars

\* rotor signals and mode switches
SpecCtlInit == RcIdle /\ CtlInit /\ EnvIdle /\ MathIdle /\ AngIdle /\ RotIdle /\ PoseIdle
SpecCtlNext ==
    \/ GetVertexCount
    \/ GetVertexControlSignal
    \/ IsOffboardMode
    \/ IsSimulationMode
    \/ SetOffboardMode
    \/ SetSimulationMode
    \/ ControllerUpdate
    \/ ControllerReset
SpecCtl == SpecCtlInit /\ [][SpecCtlNext]_vars

\* Environment
SpecEnvInit == RcIdle /\ CtlIdle /\ EnvInit /\ MathIdle /\ AngIdle /\ RotIdle /\ PoseIdle
SpecEnvNext == Initialize \/ SetPosition \/ Reset \/ Update
SpecEnv == SpecEnvInit /\ [][SpecEnvNext]_vars

\* normalizeAngleDegrees
SpecAngleInit == RcIdle /\ CtlIdle /\ EnvIdle /\ MathIdle /\ AngInit /\ RotIdle /\ PoseIdle
SpecAngleNext == NormalizeAngleDegrees
SpecAngle == SpecAngleInit /\ [][SpecAngleNext]_vars

\* rotateVector, then rotateVectorReverse
SpecRotInit == RcIdle /\ CtlIdle /\ EnvIdle /\ MathIdle /\ AngIdle /\ RotInit /\ PoseIdle
SpecRotNext == RotateVector \/ RotateVectorReverse
SpecRot == SpecRotInit /\ [][SpecRotNext]_vars

\* Pose operator-
SpecPoseInit == RcIdle /\ CtlIdle /\ EnvIdle /\ MathIdle /\ AngIdle /\ RotIdle /\ PoseInit
SpecPoseNext == PoseSubtract
SpecPose == SpecPoseInit /\ [][SpecPoseNext]_vars

\* The whole core: every component from its constructed state.
Init == RcInit /\ CtlInit /\ EnvInit /\ MathIdle /\ AngIdle /\ RotIdle /\ PoseIdle
Next == SpecRCNext \/ SpecCtlNext \/ SpecEnvNext
Spec == Init /\ [][Next]_vars

(***************************************************************************)
(* Properties.                                                             *)
(***************************************************************************)
\* The last call was setRCData with the link up / down.
ConnectedCall == rc_call.op = "setRCData" /\ rc_call.rcData.is_connected
DisconnectedCall == rc_call.op = "setRCData" /\ ~rc_call.rcData.is_connected
\* The nominal range [-1,1] of an analog axis.
UnitAxis == -AxisScale .. AxisScale

\* C1 (SpecRC): a setRCData call whose RCData is not connected writes no
\* firmware input channel: all twelve channels keep the values they had, which
\* are those of the most recent connected call (or the initial ones).
C1_HoldLastCommand ==
    [][(rc_call'.op = "setRCData" /\ ~rc_call'.rcData.is_connected)
        => input_channels' = input_channels]_vars

\* A disconnected call that carried roll = -1 found channel 0 at 2000 (set by
\* an earlier connected call with roll = 1) and left it there.
C1_Witness ==
    /\ DisconnectedCall
    /\ rc_call.rcData.roll = -AxisScale
    /\ input_channels[0] = 2000

\* C2 (SpecRC): after a connected setRCData with roll in [-1,1], channel 0 holds
\* 1500 + 500*roll (cut to a whole number by the uint16_t cast), which lies in
\* [1000,2000]; roll 1 gives 2000, roll -1 gives 1000, roll 0 gives 1500.
C2_RollChannel ==
    (ConnectedCall /\ rc_call.rcData.roll \in UnitAxis) =>
        LET roll == rc_call.rcData.roll
            ch == input_channels[0]
        IN  /\ ch \in 1000 .. 2000
            /\ ch * AxisScale <= 1500 * AxisScale + 500 * roll
            /\ 1500 * AxisScale + 500 * roll < (ch + 1) * AxisScale
            /\ (roll = AxisScale => ch = 2000)
            /\ (roll = -AxisScale => ch = 1000)
            /\ (roll = 0 => ch = 1500)

\* A connected call with roll = 1 has put 2000 on channel 0.
C2_Witness ==
    /\ ConnectedCall
    /\ rc_call.rcData.roll = AxisScale
    /\ input_channels[0] = 2000

\* C3 (SpecRC): after a connected setRCData with roll, pitch and yaw in [-1,1],
\* throttle at most 1 and any switch position on each of the eight switches,
\* every input channel holds a value in [1000,2000].
C3_AllChannelsInPwmRange ==
    (/\ ConnectedCall
     /\ rc_call.rcData.roll \in UnitAxis
     /\ rc_call.rcData.pitch \in UnitAxis
     /\ rc_call.rcData.yaw \in UnitAxis
     /\ rc_call.rcData.throttle <= AxisScale)
    => \A c \in Channels : input_channels[c] \in 1000 .. 2000

\* C4 (SpecCtl): on a 4-rotor vehicle getVertexControlSignal(i) throws and reads
\* no motor output for every i >= getVertexCount(), and for every i in 0..3 it
\* returns the output of the one motor it reads.
C4_RotorIndexGuard ==
    (rotor_count = 4 /\ ctl_call.op = "getVertexControlSignal") =>
        IF ctl_call.arg >= getVertexCount
        THEN /\ ctl_call.outcome = "std::runtime_error"
             /\ ctl_call.motor_read = {}
        ELSE /\ ctl_call.outcome = "returned"
             /\ \E m \in Motors :
                 /\ ctl_call.motor_read = {m}
                 /\ ctl_call.value = motor_out[m]

\* getVertexControlSignal(4) on a 4-rotor vehicle has thrown.
C4_Witness ==
    /\ rotor_count = 4
    /\ ctl_call.op = "getVertexControlSignal"
    /\ ctl_call.arg = 4
    /\ ctl_call.outcome = "std::runtime_error"

\* The computed fields of a state, and what the standard atmosphere and
\* gravity give at an altitude.
Derived(state) ==
    [gravity |-> state.gravity, air_pressure |-> state.air_pressure,
     temperature |-> state.temperature, air_density |-> state.air_density]
StandardDerived(altitude) ==
    LET geo_pot == getGeopotential(altitude)
        temperature == getStandardTemperature(geo_pot)
        air_pressure == getStandardPressure(geo_pot, temperature)
    IN  [gravity |-> <<0, 0, getGravity(altitude)>>,
         air_pressure |-> air_pressure,
         temperature |-> temperature,
         air_density |-> getAirDensity(air_pressure, temperature)]

\* C5 as stated (SpecEnv): in every state of an initialized Environment the
\* computed fields of current_ are those of the current position and the home
\* geo-point.
C5_DerivedFollowPosition ==
    initialized =>
        Derived(current_) =
            StandardDerived(
                nedToGeodetic(current_.position, home_geo_point_).altitude)

\* C5 amended (SpecEnv): in every state of an initialized Environment the
\* computed fields of current_ are those of the altitude of current_.geo_point,
\* and unless the last operation was setPosition that geo-point is the one of
\* the current position and the home geo-point.
C5_DerivedFollowLastUpdate ==
    initialized =>
        /\ Derived(current_) = StandardDerived(current_.geo_point.altitude)
        /\ env_call.op # "setPosition" =>
             current_.geo_point =
                 nedToGeodetic(current_.position, home_geo_point_)

\* update() has recomputed the state at a position whose altitude differs from
\* the initial one.
C5_Witness ==
    /\ initialized
    /\ env_call.op = "update"
    /\ current_.position # initial_.position
    /\ current_.geo_point.altitude # initial_.geo_point.altitude
    /\ current_.temperature # initial_.temperature

\* C6 (SpecEnv): once the Environment is initialized it stays so and no
\* operation, a further initialize() included, changes the home geo-point.
C6_HomeFixedOnce ==
    [][initialized =>
        (initialized' /\ home_geo_point_' = home_geo_point_)]_vars

\* C7 (SpecEnv): reset() makes current_ equal to the initial state initialize()
\* recorded, and leaves initial_ and the home geo-point as they were.
C7_ResetRestoresInitial ==
    [][env_call'.op = "reset" =>
        /\ current_' = initial_
        /\ initial_' = initial_
        /\ home_geo_point_' = home_geo_point_]_vars

\* reset() found a current_ that had been moved and updated away from the
\* initial state, and restored it.
C7_Witness ==
    /\ env_call.op = "reset"
    /\ env_call.found.position # initial_.position
    /\ env_call.found.geo_point # initial_.geo_point
    /\ env_call.found.air_density # initial_.air_density
    /\ current_ = initial_

\* C8 (SpecCtl): setOffboardMode(is_set) and setSimulationMode(false) each end
\* in VehicleCommandNotImplementedException.
C8_NotImplementedRaised ==
    (\/ ctl_call.op = "setOffboardMode"
     \/ (ctl_call.op = "setSimulationMode" /\ ctl_call.arg = FALSE))
    => ctl_call.outcome = "VehicleCommandNotImplementedException"

\* C9 (SpecAngle): normalizeAngleDegrees(a) lies in (-180,180] and differs
\* from a by a multiple of 360.
C9_NormalizedHalfOpen ==
    math_pc = "normalized" =>
        /\ angle_out > -180
        /\ angle_out <= 180
        /\ (angle_out - angle_in) % 360 = 0

\* C10 (SpecRot): for a unit quaternion q and assume_unit_quat = true,
\* rotateVectorReverse(rotateVector(v, q, true), q, true) = v.
C10_RotationRoundTrip ==
    (math_pc = "restored" /\ rot_unit /\ IsUnit(rot_q)) => rot_back = rot_v

\* A unit quaternion with half-integer components has moved v and the reverse
\* rotation has brought it back.
C10_Witness ==
    /\ math_pc = "restored"
    /\ rot_unit
    /\ IsUnit(rot_q)
    /\ rot_q.d = 2
    /\ rot_fwd # rot_v
    /\ rot_back = rot_v

\* C12 (SpecCtl): every update() adds exactly one IMU notification followed by
\* exactly one firmware loop step to what the board and firmware observe, no
\* other operation adds a notification or a loop step (the controller's
\* reset() adds only its system_reset request), and so the notifications and
\* loop steps observed always alternate notification, loop, notification,
\* loop, ... with as many of the one as of the other.
Ticks == SelectSeq(board_events, LAMBDA e : e # "system_reset(false)")
C12_UpdateNotifiesThenLoops ==
    /\ [](/\ \A k \in 1 .. Len(Ticks) :
                Ticks[k] =
                    IF k % 2 = 1 THEN "notifySensorUpdated(Imu)" ELSE "loop"
          /\ Len(Ticks) % 2 = 0)
    /\ [][IF ctl_call'.op = "update"
          THEN board_events' =
                   board_events \o <<"notifySensorUpdated(Imu)", "loop">>
          ELSE Ticks' = Ticks]_vars

\* update(), reset(), update() have been called: the board and the firmware
\* have seen notification, loop, the reset request, notification, loop.
C12_Witness ==
    /\ ctl_call.op = "update"
    /\ board_events =
           <<"notifySensorUpdated(Imu)", "loop", "system_reset(false)",
             "notifySensorUpdated(Imu)", "loop">>

\* The logical rotor indices the firmware binding supports.
LogicalRotors == 0 .. 3

\* C14 (SpecCtl): the rotor-index remapping of getVertexControlSignal is a
\* bijection on {0,1,2,3}: two distinct logical indices never read the same
\* motor output, and every motor output 0..3 is read by exactly one logical
\* index.
C14_RemapBijection ==
    /\ \A i, j \in LogicalRotors :
        i # j =>
            getVertexControlSignal(i).motor_read
                # getVertexControlSignal(j).motor_read
    /\ \A m \in Motors :
        Cardinality({i \in LogicalRotors :
                        getVertexControlSignal(i).motor_read = {m}}) = 1
    /\ (ctl_call.op = "getVertexControlSignal"
            /\ ctl_call.outcome = "returned") =>
        \A i \in LogicalRotors \ {ctl_call.arg} :
            getVertexControlSignal(i).motor_read # ctl_call.motor_read

\* getVertexControlSignal(3) has read motor output 0, the one index that wraps.
C14_Witness ==
    /\ ctl_call.op = "getVertexControlSignal"
    /\ ctl_call.arg = 3
    /\ ctl_call.outcome = "returned"
    /\ ctl_call.motor_read = {0}

\* C13 (SpecEnv): setPosition(p) changes the position of current_ and nothing
\* else (geo_point, gravity, air_pressure, temperature, air_density, initial_
\* and the home geo-point stay), and an update() that follows it makes
\* geo_point and the computed fields those of p.
C13_SetPositionOnlyMoves ==
    /\ [][env_call'.op = "setPosition" =>
            /\ current_' = [current_ EXCEPT !.position = env_call'.position]
            /\ initial_' = initial_
            /\ home_geo_point_' = home_geo_point_]_vars
    /\ [][(env_call.op = "setPosition" /\ env_call'.op = "update") =>
            /\ current_'.position = env_call.position
            /\ current_'.geo_point =
                   nedToGeodetic(env_call.position, home_geo_point_)
            /\ Derived(current_') =
                   StandardDerived(
                       nedToGeodetic(env_call.position, home_geo_point_).altitude)]_vars

\* setPosition has moved current_ to another altitude while geo_point and the
\* computed fields are still those of the place before.
C13_Witness ==
    /\ env_call.op = "setPosition"
    /\ current_.position = env_call.position
    /\ current_.geo_point # nedToGeodetic(current_.position, home_geo_point_)
    /\ Derived(current_) #
           StandardDerived(
               nedToGeodetic(current_.position, home_geo_point_).altitude)

\* C11 (SpecPose): for a pose P with unit orientation, P - P has position
\* (0,0,0) and the identity orientation (w = 1, x = y = z = 0).
C11_PoseSelfDifference ==
    (math_pc = "subtracted" /\ pose_lhs = pose_rhs
        /\ IsUnit(pose_rhs.orientation)) =>
        /\ pose_diff.position = ZeroVec
        /\ pose_diff.orientation = IdentityQuat

\* P - P has been taken for a pose away from the origin whose orientation is
\* a unit quaternion with half-integer components.
C11_Witness ==
    /\ math_pc = "subtracted"
    /\ pose_lhs = pose_rhs
    /\ IsUnit(pose_rhs.orientation)
    /\ pose_rhs.orientation.d = 2
    /\ pose_rhs.position # ZeroVec
    /\ pose_diff = ZeroPose

====
